---- MODULE Spec2Model ----
(***************************************************************************)
(* Level-of-traffic-stress pipeline of cycling-lts: lts.py (LTSAnalyzer    *)
(* load / run / save) and osmdata.py (streaming loader and the two         *)
(* writers).                                                               *)
(***************************************************************************)
EXTENDS Integers, Sequences, FiniteSets, TLC

VARIABLES
  options,     \* self.options: [bzip, overpass, geojson]
  input,       \* the (start|end) events lxml's iterparse yields for the input file
  pc,          \* position of the main method: start, loading, run, ran, save, done, error
  pos,         \* number of events taken from the iterparse context
  currenttag,  \* load_osm_file: the pending top-level tag
  dispatched,  \* load_osm_file: the elements the dispatch block handled, in order
  osm,         \* the OSMData under construction / self.osm
  way_i,       \* run: index of the next way of `for _,way in self.osm.ways.items()`
  runs,        \* number of invocations of run()
  ret,         \* run: what get_lanes / get_maxspeed returned for the last way
  level,       \* save: the loop variable of `for level in [1,2,3,4]`
  osmouts,     \* save: the derived maps (osmout) built so far, by level
  files,       \* the output files opened so far: level -> "partial" | "complete"
  error        \* the exception that ended the run, with the stage that raised it

vars == <<options, input, pc, pos, currenttag, dispatched, osm, way_i, runs,
          ret, level, osmouts, files, error>>

-----------------------------------------------------------------------------
(* Bounds of the model.                                                    *)

MaxWays == 2      \* ways in an input document of the pipeline
MaxElems == 4     \* elements below the root in a document of the loader study
MaxRuns == 2      \* invocations of run() on one analyzer

-----------------------------------------------------------------------------
(* Python values.                                                          *)

\* Python's None (dict.get / elem.get on a missing key); not a tag or
\* attribute text of any modelled document.
None == "<None>"

\* A Way has no `level` attribute until run() assigns one.
NoLevel == 0 - 1

\* dict.get(key)
Get(d, k) == IF k \in DOMAIN d THEN d[k] ELSE None

\* An insertion-ordered dict: the keys in insertion order and the mapping.
EmptyDict == [keys |-> <<>>, val |-> <<>>]

\* dict.update({k: v}): an existing key keeps its place.
DictUpdate(d, k, v) ==
  IF k \in DOMAIN d.val
    THEN [d EXCEPT !.val = [x \in DOMAIN d.val |-> IF x = k THEN v ELSE d.val[x]]]
    ELSE [keys |-> Append(d.keys, k), val |-> (k :> v) @@ d.val]

-----------------------------------------------------------------------------
(* Strings as character sequences, for the numeric parsing of run().       *)

\* The characters of the lanes / maxspeed texts of the modelled documents.
Chars(s) ==
  CASE s = "1" -> <<"1">>
    [] s = "2" -> <<"2">>
    [] s = "3" -> <<"3">>
    [] s = "4" -> <<"4">>
    [] s = "2;4" -> <<"2", ";", "4">>
    [] s = "3;" -> <<"3", ";">>
    [] s = "x" -> <<"x">>
    [] s = "30" -> <<"3", "0">>
    [] s = "40" -> <<"4", "0">>
    [] s = "41" -> <<"4", "1">>
    [] s = "60" -> <<"6", "0">>
    [] s = "25 mph" -> <<"2", "5", " ", "m", "p", "h">>
    [] s = "30 mph" -> <<"3", "0", " ", "m", "p", "h">>
    [] s = "33mph" -> <<"3", "3", "m", "p", "h">>
    [] s = "mph" -> <<"m", "p", "h">>
    [] s = "signals" -> <<"s", "i", "g", "n", "a", "l", "s">>
    [] s = "national" -> <<"n", "a", "t", "i", "o", "n", "a", "l">>
    [] OTHER -> <<"?">>

Digits == {"0", "1", "2", "3", "4", "5", "6", "7", "8", "9"}

DigitVal(c) ==
  CASE c = "0" -> 0 [] c = "1" -> 1 [] c = "2" -> 2 [] c = "3" -> 3
    [] c = "4" -> 4 [] c = "5" -> 5 [] c = "6" -> 6 [] c = "7" -> 7
    [] c = "8" -> 8 [] c = "9" -> 9

\* The result of a Python expression that may raise ValueError.
Value(n) == [err |-> FALSE, val |-> n]
ValueError == [err |-> TRUE, val |-> 0]

\* str.strip() as int() applies it: leading and trailing blanks dropped.
RECURSIVE LStrip(_)
LStrip(cs) ==
  IF cs # <<>> /\ Head(cs) = " " THEN LStrip(Tail(cs)) ELSE cs

RECURSIVE RStrip(_)
RStrip(cs) ==
  IF cs # <<>> /\ cs[Len(cs)] = " " THEN RStrip(SubSeq(cs, 1, Len(cs) - 1)) ELSE cs

RECURSIVE DecimalValue(_)
DecimalValue(cs) ==
  IF cs = <<>> THEN 0
  ELSE 10 * DecimalValue(SubSeq(cs, 1, Len(cs) - 1)) + DigitVal(cs[Len(cs)])

\* int(text): blanks around an optionally signed, non-empty run of decimal
\* digits; ValueError for anything else.
int(cs) ==
  LET body == RStrip(LStrip(cs))
      signed == body # <<>> /\ Head(body) \in {"+", "-"}
      digs == IF signed THEN Tail(body) ELSE body
  IN IF digs = <<>> \/ \E i \in 1..Len(digs) : digs[i] \notin Digits
       THEN ValueError
       ELSE Value(IF signed /\ Head(body) = "-"
                    THEN 0 - DecimalValue(digs) ELSE DecimalValue(digs))

\* str.find(sub) for a three-character sub: the first index (from 0), -1 if none.
find(cs, sub) ==
  LET hits == {i \in 1..(Len(cs) - 2) : SubSeq(cs, i, i + 2) = sub}
  IN IF hits = {} THEN 0 - 1
     ELSE (CHOOSE i \in hits : \A j \in hits : i <= j) - 1

\* str.split(";")
RECURSIVE split(_)
split(cs) ==
  LET seps == {i \in 1..Len(cs) : cs[i] = ";"}
  IN IF seps = {} THEN <<cs>>
     ELSE LET i == CHOOSE k \in seps : \A j \in seps : k <= j
          IN <<SubSeq(cs, 1, i - 1)>> \o split(SubSeq(cs, i + 1, Len(cs)))

-----------------------------------------------------------------------------
(* run(): the functions that interpret OSM tags.                           *)

\* is_cyclable without the piste:type override of bicycle=yes.
is_cyclable_no_piste(way) ==
  IF Get(way.tags, "bicycle") = "no" THEN FALSE
  ELSE IF Get(way.tags, "bicycle") = "yes" THEN TRUE
  ELSE IF "highway" \in DOMAIN way.tags
    THEN LET highway == Get(way.tags, "highway")
         IN IF highway = "motorway" \/ highway = "motorway_link" THEN FALSE
            ELSE IF highway = "service"
                    /\ LET service == Get(way.tags, "service")
                       IN service = "parking_aisle" \/ service = "driveway"
              THEN FALSE
            ELSE TRUE
  ELSE FALSE

is_cyclable(way) ==
  IF Get(way.tags, "bicycle") = "no" THEN FALSE
  ELSE IF Get(way.tags, "bicycle") = "yes"
    THEN (IF Get(way.tags, "piste:type") = "nordic" THEN FALSE ELSE TRUE)
  ELSE IF "highway" \in DOMAIN way.tags
    THEN LET highway == Get(way.tags, "highway")
         IN IF highway = "motorway" \/ highway = "motorway_link" THEN FALSE
            ELSE IF highway = "service"
                    /\ LET service == Get(way.tags, "service")
                       IN service = "parking_aisle" \/ service = "driveway"
              THEN FALSE
            ELSE TRUE
  ELSE FALSE

is_path(way) ==
  IF "cycleway" \in DOMAIN way.tags THEN TRUE
  ELSE IF "highway" \in DOMAIN way.tags
    THEN LET highway == Get(way.tags, "highway")
         IN highway = "cycleway" \/ highway = "footway"
            \/ highway = "path" \/ highway = "track"
  ELSE FALSE

is_residential(way) == Get(way.tags, "highway") = "residential"

is_oneway(way) == Get(way.tags, "oneway") = "yes"

is_service(way) == Get(way.tags, "highway") = "service"

\* max over the ;-separated parts, starting from maxlanes = 0; the first part
\* that int() rejects raises.
RECURSIVE MaxLanes(_, _)
MaxLanes(parts, maxlanes) ==
  IF parts = <<>> THEN Value(maxlanes)
  ELSE LET n == int(Head(parts))
       IN IF n.err THEN ValueError
          ELSE MaxLanes(Tail(parts), IF n.val > maxlanes THEN n.val ELSE maxlanes)

get_lanes(way) ==
  IF "lanes" \in DOMAIN way.tags
    THEN LET lanes == Chars(Get(way.tags, "lanes"))
         IN IF \E i \in 1..Len(lanes) : lanes[i] = ";"
              THEN MaxLanes(split(lanes), 0)
              ELSE int(lanes)
    ELSE Value(0 - 1)

\* Speeds are kept in tenths of a km/h, so that the product with the float
\* literal 1.6 is exact: km/h value v is 10 * v, and n * 1.6 is 16 * n.
Tenths(n) == 10 * n

MphToKmh(n) == 16 * n

get_maxspeed(way) ==
  IF "maxspeed" \in DOMAIN way.tags
    THEN LET maxspeed == Chars(Get(way.tags, "maxspeed"))
         IN IF "maxspeed" = "national" THEN Value(Tenths(40))
            ELSE IF find(maxspeed, <<"m", "p", "h">>) >= 0
              THEN LET i == find(maxspeed, <<"m", "p", "h">>)
                       n == int(SubSeq(maxspeed, 1, i))
                   IN IF n.err THEN ValueError ELSE Value(MphToKmh(n.val))
            ELSE LET n == int(maxspeed)
                 IN IF n.err THEN ValueError ELSE Value(Tenths(n.val))
    ELSE IF Get(way.tags, "highway") = "motorway" THEN Value(Tenths(100))
    ELSE Value(Tenths(50))

\* get_maxspeed(way) < 40
SlowLimit_strict(speed) == speed.val < Tenths(40)

\* get_maxspeed(way) <= 40
SlowLimit(speed) == speed.val <= Tenths(40)

\* A helper that the classification of a way did not call.
NotCalled == [err |-> FALSE, val |-> 0, called |-> FALSE]
Called(r) == [err |-> r.err, val |-> r.val, called |-> TRUE]

\* The body of the loop of run() for one way: the level it assigns (0, the
\* provisional `way.level = 0`, when a helper raises), whether ValueError
\* propagates, and what the helpers returned.
StressModel(way) ==
  LET result(lv, e, l, m) == [level |-> lv, err |-> e, lanes |-> l, maxspeed |-> m]
      bySpeed(slow, fast, l) ==
        LET m == get_maxspeed(way)
        IN IF m.err THEN result(0, TRUE, l, Called(m))
           ELSE result(IF SlowLimit(m) THEN slow ELSE fast, FALSE, l, Called(m))
  IN IF ~is_cyclable(way) THEN result(0, FALSE, NotCalled, NotCalled)
     ELSE IF is_path(way) THEN result(1, FALSE, NotCalled, NotCalled)
     ELSE IF is_service(way) THEN result(2, FALSE, NotCalled, NotCalled)
     ELSE LET l == get_lanes(way)
          IN IF l.err THEN result(0, TRUE, Called(l), NotCalled)
             ELSE IF l.val > 2 /\ (~is_residential(way) /\ l.val > 1 /\ is_oneway(way))
               THEN bySpeed(3, 4, Called(l))
             ELSE IF is_residential(way) THEN result(2, FALSE, Called(l), NotCalled)
             ELSE bySpeed(2, 3, Called(l))

-----------------------------------------------------------------------------
(* The input document as lxml's iterparse(events=("start", "end")) yields  *)
(* it: one start and one end event per element, in document order.  An     *)
(* element is named by the index of its start event.                       *)

Start(tag, attrs) == [ev |-> "start", tag |-> tag, attrs |-> attrs]
End(tag) == [ev |-> "end", tag |-> tag, attrs |-> <<>>]

\* The parser's stack after the first k events: the start indexes of the open
\* elements, innermost last.  An end event closes the innermost open element.
RECURSIVE Open(_, _)
Open(evs, k) ==
  IF k = 0 THEN <<>>
  ELSE LET below == Open(evs, k - 1)
       IN IF evs[k].ev = "start" THEN Append(below, k)
          ELSE SubSeq(below, 1, Len(below) - 1)

\* The start event of the element whose end event is at index e.
StartOf(evs, e) == LET below == Open(evs, e - 1) IN below[Len(below)]

\* The end event of the element whose start event is at index s.
EndOf(evs, s) ==
  CHOOSE e \in s..Len(evs) :
    evs[e].ev = "end" /\ Len(Open(evs, e)) = Len(Open(evs, s)) - 1

\* A well-formed prefix: one root, every end event closes an open element of
\* its own tag name.
RECURSIVE Nested(_, _)
Nested(evs, k) ==
  IF k = 0 THEN TRUE
  ELSE /\ Nested(evs, k - 1)
       /\ LET below == Open(evs, k - 1)
          IN IF evs[k].ev = "start" THEN k = 1 \/ below # <<>>
             ELSE below # <<>> /\ evs[below[Len(below)]].tag = evs[k].tag

\* A whole well-formed document.
WellFormed(evs) == evs # <<>> /\ Nested(evs, Len(evs)) /\ Open(evs, Len(evs)) = <<>>

\* elem.get(name) for the element that starts at s.
Attr(evs, s, name) == Get(evs[s].attrs, name)

\* elem.iter(tag=t) at the end event e of the element that starts at s: the
\* element itself and its descendants with that tag, in document order.
RECURSIVE IterFrom(_, _, _, _)
IterFrom(evs, k, e, t) ==
  IF k > e THEN <<>>
  ELSE (IF evs[k].ev = "start" /\ evs[k].tag = t THEN <<k>> ELSE <<>>)
       \o IterFrom(evs, k + 1, e, t)

iter(evs, s, e, t) == IterFrom(evs, s, e, t)

-----------------------------------------------------------------------------
(* osmdata.py: the map model.                                              *)

OSMData == [meta |-> <<>>, bounds |-> <<>>, nodes |-> EmptyDict,
            ways |-> EmptyDict, relations |-> EmptyDict]

\* A plain dict whose order nothing reads (tags, meta, bounds): update({k: v}).
Update(d, k, v) == [x \in DOMAIN d \cup {k} |-> IF x = k THEN v ELSE d[x]]

Node(lat, lon) == [none |-> FALSE, tags |-> <<>>, lat |-> lat, lon |-> lon]

\* What self.osm.nodes.get(ref) yields for an id the map does not hold.
NoneNode == [none |-> TRUE]

Way == [tags |-> <<>>, nodes |-> <<>>, level |-> NoLevel]

Relation == [tags |-> <<>>, members |-> <<>>]

Member(typestr, reference, role) ==
  [typestr |-> typestr, reference |-> reference, role |-> role]

\* for child in elem.iter(tag="tag"): tags.update({child.get("k"): child.get("v")})
RECURSIVE CollectTags(_, _, _)
CollectTags(evs, children, tags) ==
  IF children = <<>> THEN tags
  ELSE CollectTags(evs, Tail(children),
         Update(tags, Attr(evs, Head(children), "k"), Attr(evs, Head(children), "v")))

\* for child in elem.iter(tag="nd"): way.nodes.append(child.get("ref"))
CollectRefs(evs, children) ==
  [i \in 1..Len(children) |-> Attr(evs, children[i], "ref")]

\* for child in elem.iter(tag="member"): relation.members.append(Member(...))
CollectMembers(evs, children) ==
  [i \in 1..Len(children) |->
     Member(Attr(evs, children[i], "type"), Attr(evs, children[i], "ref"),
            Attr(evs, children[i], "role"))]

\* The dispatch block of load_osm_file for the element [s, e].
Dispatch(o, evs, s, e) ==
  LET tag == evs[e].tag
      tags == CollectTags(evs, iter(evs, s, e, "tag"), <<>>)
  IN CASE tag = "note" -> o
       [] tag = "meta" ->
            [o EXCEPT !.meta = Update(o.meta, "osm_base", Attr(evs, s, "osm_base"))]
       [] tag = "bounds" ->
            [o EXCEPT !.bounds =
               Update(Update(Update(Update(o.bounds,
                 "minlat", Attr(evs, s, "minlat")),
                 "minlon", Attr(evs, s, "minlon")),
                 "maxlat", Attr(evs, s, "maxlat")),
                 "maxlon", Attr(evs, s, "maxlon"))]
       [] tag = "node" ->
            [o EXCEPT !.nodes = DictUpdate(o.nodes, Attr(evs, s, "id"),
               [Node(Attr(evs, s, "lat"), Attr(evs, s, "lon")) EXCEPT !.tags = tags])]
       [] tag = "way" ->
            [o EXCEPT !.ways = DictUpdate(o.ways, Attr(evs, s, "id"),
               [Way EXCEPT !.nodes = CollectRefs(evs, iter(evs, s, e, "nd")),
                           !.tags = tags])]
       [] tag = "relation" ->
            [o EXCEPT !.relations = DictUpdate(o.relations, Attr(evs, s, "id"),
               [Relation EXCEPT !.members = CollectMembers(evs, iter(evs, s, e, "member")),
                                !.tags = tags])]
       [] OTHER -> o

-----------------------------------------------------------------------------
(* LTSAnalyzer.load and osmdata.load_osm_file.                             *)

NoError == [stage |-> "", exc |-> ""]

\* load(): the bzip branch and the default branch call load_osm_file, whose
\* first statements create the map and take the root's start event.
LoadBegin ==
  /\ pc = "start"
  /\ options.bzip \/ ~options.overpass
  /\ input # <<>>
  /\ pc' = "loading"
  /\ pos' = 1
  /\ currenttag' = None
  /\ osm' = OSMData
  /\ UNCHANGED <<options, input, dispatched, way_i, runs, ret, level, osmouts,
                 files, error>>

\* load(): the overpass branch calls osmdata.load_overpass, which osmdata.py
\* does not define: the attribute lookup raises AttributeError.
LoadOverpass ==
  /\ pc = "start"
  /\ ~options.bzip /\ options.overpass
  /\ pc' = "error"
  /\ error' = [stage |-> "load", exc |-> "AttributeError"]
  /\ UNCHANGED <<options, input, pos, currenttag, dispatched, osm, way_i, runs,
                 ret, level, osmouts, files>>

\* The loop body without `currenttag = None` after the dispatch.
LoadStep_keeps_tag(st, evs, e) ==
  LET event == evs[e].ev
      tag == evs[e].tag
      pending == IF event = "start" /\ st.currenttag = None THEN tag ELSE st.currenttag
  IN IF event = "end" /\ tag = pending
       THEN [osm |-> Dispatch(st.osm, evs, StartOf(evs, e), e),
             currenttag |-> pending,
             dispatched |-> Append(st.dispatched, [elem |-> StartOf(evs, e), at |-> e])]
       ELSE [st EXCEPT !.currenttag = pending]

\* One iteration of `for event, elem in context`, for the event at index e,
\* on the locals st = [osm, currenttag, dispatched].
LoadStep(st, evs, e) ==
  LET event == evs[e].ev
      tag == evs[e].tag
      pending == IF event = "start" /\ st.currenttag = None THEN tag ELSE st.currenttag
  IN IF event = "end" /\ tag = pending
       THEN [osm |-> Dispatch(st.osm, evs, StartOf(evs, e), e),
             currenttag |-> None,
             dispatched |-> Append(st.dispatched, [elem |-> StartOf(evs, e), at |-> e])]
       ELSE [st EXCEPT !.currenttag = pending]

LoadEvent ==
  /\ pc = "loading"
  /\ pos < Len(input)
  /\ LET st == LoadStep([osm |-> osm, currenttag |-> currenttag,
                         dispatched |-> dispatched], input, pos + 1)
     IN /\ osm' = st.osm
        /\ currenttag' = st.currenttag
        /\ dispatched' = st.dispatched
  /\ pos' = pos + 1
  /\ UNCHANGED <<options, input, pc, way_i, runs, ret, level, osmouts, files, error>>

\* The context is exhausted: load_osm_file returns the map, load() stores it
\* in self.osm and the main method goes on to run().
LoadReturn ==
  /\ pc = "loading"
  /\ pos = Len(input)
  /\ WellFormed(input)
  /\ pc' = "run"
  /\ way_i' = 1
  /\ runs' = 1
  /\ UNCHANGED <<options, input, pos, currenttag, dispatched, osm, ret, level,
                 osmouts, files, error>>

\* The parser reaches the place where the document is malformed (here: it
\* ends early): next(context) raises XMLSyntaxError.
ParseError ==
  /\ \/ pc = "loading"
     \/ pc = "start" /\ (options.bzip \/ ~options.overpass)
  /\ pos = Len(input)
  /\ ~WellFormed(input)
  /\ pc' = "error"
  /\ error' = [stage |-> "load", exc |-> "XMLSyntaxError"]
  /\ UNCHANGED <<options, input, pos, currenttag, dispatched, osm, way_i, runs,
                 ret, level, osmouts, files>>

-----------------------------------------------------------------------------
(* LTSAnalyzer.run: the stress model over every way of the map.            *)

NoReturns == [lanes |-> NotCalled, maxspeed |-> NotCalled]

\* The way the loop of run() is at.
CurrentWay == osm.ways.val[osm.ways.keys[way_i]]

\* way.level += lv on a way that already has a level.
SetLevel_accumulate(o, ref, lv) ==
  [o EXCEPT !.ways.val[ref].level = IF @ = NoLevel THEN lv ELSE @ + lv]

SetLevel(o, ref, lv) == [o EXCEPT !.ways.val[ref].level = lv]

\* One iteration of the loop that no helper aborts.
RunWay ==
  /\ pc = "run"
  /\ way_i <= Len(osm.ways.keys)
  /\ LET r == StressModel(CurrentWay)
     IN /\ ~r.err
        /\ osm' = SetLevel(osm, osm.ways.keys[way_i], r.level)
        /\ ret' = [lanes |-> r.lanes, maxspeed |-> r.maxspeed]
  /\ way_i' = way_i + 1
  /\ UNCHANGED <<options, input, pc, pos, currenttag, dispatched, runs, level,
                 osmouts, files, error>>

\* run() catches the exception and returns.
Propagate_swallowed(exc) ==
  /\ pc' = "ran"
  /\ error' = error
  /\ UNCHANGED <<level, osmouts, files>>

\* What the main method does when run() raises: the exception is not caught,
\* the process ends.
Propagate(exc) ==
  /\ pc' = "error"
  /\ error' = [stage |-> "run", exc |-> exc]
  /\ UNCHANGED <<level, osmouts, files>>

\* int() rejects a lanes or maxspeed text: the way keeps the provisional
\* level 0 of line 130 and ValueError leaves run().
RunAbort ==
  /\ pc = "run"
  /\ way_i <= Len(osm.ways.keys)
  /\ LET r == StressModel(CurrentWay)
     IN /\ r.err
        /\ osm' = SetLevel(osm, osm.ways.keys[way_i], r.level)
        /\ ret' = [lanes |-> r.lanes, maxspeed |-> r.maxspeed]
  /\ Propagate("ValueError")
  /\ UNCHANGED <<options, input, pos, currenttag, dispatched, way_i, runs>>

\* The loop is over: run() returns.
RunReturn ==
  /\ pc = "run"
  /\ way_i > Len(osm.ways.keys)
  /\ pc' = "ran"
  /\ UNCHANGED <<options, input, pos, currenttag, dispatched, osm, way_i, runs,
                 ret, level, osmouts, files, error>>

\* A caller that holds the analyzer invokes run() again on the same map.
Rerun ==
  /\ pc = "ran"
  /\ runs < MaxRuns
  /\ pc' = "run"
  /\ way_i' = 1
  /\ runs' = runs + 1
  /\ UNCHANGED <<options, input, pos, currenttag, dispatched, osm, ret, level,
                 osmouts, files, error>>

-----------------------------------------------------------------------------
(* LTSAnalyzer.save and the two writers.                                   *)

\* self.osm.nodes.get(node)
NodesGet(o, ref) == IF ref \in DOMAIN o.nodes.val THEN o.nodes.val[ref] ELSE NoneNode

\* if way.level >= level
RECURSIVE SelectWays_atleast(_, _, _, _)
SelectWays_atleast(o, k, lv, out) ==
  IF k > Len(o.ways.keys) THEN out
  ELSE LET ref == o.ways.keys[k]
       IN SelectWays_atleast(o, k + 1, lv,
            IF o.ways.val[ref].level >= lv THEN DictUpdate(out, ref, o.ways.val[ref]) ELSE out)

\* for ref,way in self.osm.ways.items(): if way.level == level: osmout.ways.update(..)
RECURSIVE SelectWays(_, _, _, _)
SelectWays(o, k, lv, out) ==
  IF k > Len(o.ways.keys) THEN out
  ELSE LET ref == o.ways.keys[k]
       IN SelectWays(o, k + 1, lv,
            IF o.ways.val[ref].level = lv THEN DictUpdate(out, ref, o.ways.val[ref]) ELSE out)

\* if node in self.osm.nodes: osmout.nodes.update(...)
RECURSIVE AddNodes_resolved(_, _, _)
AddNodes_resolved(o, refs, out) ==
  IF refs = <<>> THEN out
  ELSE AddNodes_resolved(o, Tail(refs),
         IF Head(refs) \in DOMAIN o.nodes.val
           THEN DictUpdate(out, Head(refs), NodesGet(o, Head(refs))) ELSE out)

\* for node in way.nodes: osmout.nodes.update({node: self.osm.nodes.get(node)})
RECURSIVE AddNodes(_, _, _)
AddNodes(o, refs, out) ==
  IF refs = <<>> THEN out
  ELSE AddNodes(o, Tail(refs), DictUpdate(out, Head(refs), NodesGet(o, Head(refs))))

\* for _,way in osmout.ways.items(): (the loop above)
RECURSIVE SelectNodes(_, _, _, _)
SelectNodes(o, ways, k, out) ==
  IF k > Len(ways.keys) THEN out
  ELSE SelectNodes(o, ways, k + 1, AddNodes(o, ways.val[ways.keys[k]].nodes, out))

\* The derived map save() builds for one level.
Extract(o, lv) ==
  LET ways == SelectWays(o, 1, lv, EmptyDict)
  IN [meta |-> o.meta, bounds |-> o.bounds, ways |-> ways,
      nodes |-> SelectNodes(o, ways, 1, EmptyDict), relations |-> EmptyDict]

\* etree.Element(tag, attrib) raises TypeError for an attribute value None.
ElementRaises(attrib) == \E k \in DOMAIN attrib : attrib[k] = None

\* save_osm_file raises: AttributeError on node.lat of a None node, TypeError
\* on a None id, coordinate or reference.
XmlNodeRaises(out, ref) ==
  LET node == out.nodes.val[ref]
  IN IF node.none THEN TRUE
     ELSE ref = None \/ node.lat = None \/ node.lon = None

XmlWayRaises(out, ref) ==
  \/ ref = None
  \/ \E i \in 1..Len(out.ways.val[ref].nodes) : out.ways.val[ref].nodes[i] = None

save_osm_file_raises(out) ==
  \/ ElementRaises(out.meta)
  \/ ElementRaises(out.bounds)
  \/ \E ref \in DOMAIN out.nodes.val : XmlNodeRaises(out, ref)
  \/ \E ref \in DOMAIN out.ways.val : XmlWayRaises(out, ref)

\* save_geojson_file raises: TypeError on "way/"+None, AttributeError on n.lon
\* of a None node, TypeError on a None coordinate.
JsonNodeRaises(out, ref) ==
  LET n == NodesGet(out, ref)
  IN IF n.none THEN TRUE ELSE n.lon = None \/ n.lat = None

save_geojson_file_raises(out) ==
  \E ref \in DOMAIN out.ways.val :
    \/ ref = None
    \/ \E i \in 1..Len(out.ways.val[ref].nodes) :
         JsonNodeRaises(out, out.ways.val[ref].nodes[i])

WriterRaises(out) ==
  IF options.geojson THEN save_geojson_file_raises(out) ELSE save_osm_file_raises(out)

\* The main method calls save() after run() has returned.
SaveBegin ==
  /\ pc = "ran"
  /\ pc' = "save"
  /\ level' = 1
  /\ UNCHANGED <<options, input, pos, currenttag, dispatched, osm, way_i, runs,
                 ret, osmouts, files, error>>

\* One iteration of `for level in [1,2,3,4]` whose writer finishes.
SaveLevel ==
  /\ pc = "save"
  /\ level <= 4
  /\ LET out == Extract(osm, level)
     IN /\ ~WriterRaises(out)
        /\ osmouts' = (level :> out) @@ osmouts
  /\ files' = (level :> "complete") @@ files
  /\ level' = level + 1
  /\ UNCHANGED <<options, input, pc, pos, currenttag, dispatched, osm, way_i,
                 runs, ret, error>>

\* One iteration whose writer raises (AttributeError or TypeError, both
\* recorded as WriterError): the file was opened and is left incomplete, the
\* exception leaves save().
SaveFail ==
  /\ pc = "save"
  /\ level <= 4
  /\ LET out == Extract(osm, level)
     IN /\ WriterRaises(out)
        /\ osmouts' = (level :> out) @@ osmouts
  /\ files' = (level :> "partial") @@ files
  /\ pc' = "error"
  /\ error' = [stage |-> "save", exc |-> "WriterError"]
  /\ UNCHANGED <<options, input, pos, currenttag, dispatched, osm, way_i, runs,
                 ret, level>>

\* The loop is over: save() returns and the main method ends.
SaveReturn ==
  /\ pc = "save"
  /\ level > 4
  /\ pc' = "done"
  /\ UNCHANGED <<options, input, pos, currenttag, dispatched, osm, way_i, runs,
                 ret, level, osmouts, files, error>>

-----------------------------------------------------------------------------
(* Input documents.                                                        *)

\* <tag attrs> children </tag>
Elem(tag, attrs, children) == <<Start(tag, attrs)>> \o children \o <<End(tag)>>

RECURSIVE Flatten(_)
Flatten(seqs) == IF seqs = <<>> THEN <<>> ELSE Head(seqs) \o Flatten(Tail(seqs))

\* The tag keys run() reads, in the order a document lists them.
TagKeys == <<"bicycle", "piste:type", "highway", "service", "cycleway", "oneway",
             "lanes", "maxspeed">>

\* The <tag k= v=/> children of an element with the given tag mapping.
TagElems(tags) ==
  Flatten([i \in 1..Len(TagKeys) |->
             IF TagKeys[i] \in DOMAIN tags
               THEN Elem("tag", [k |-> TagKeys[i], v |-> tags[TagKeys[i]]], <<>>)
               ELSE <<>>])

NdElems(refs) ==
  Flatten([i \in 1..Len(refs) |-> Elem("nd", [ref |-> refs[i]], <<>>)])

WayElem(id, refs, tags) == Elem("way", [id |-> id], NdElems(refs) \o TagElems(tags))

WayIds == <<"w1", "w2", "w3", "w4">>

WayElems(ws) ==
  Flatten([i \in 1..Len(ws) |-> WayElem(WayIds[i], ws[i].refs, ws[i].tags)])

\* Node n2 of the documents: missing from the extract, complete, or without
\* its lat attribute.
NodeElems(n2) ==
  Elem("node", [id |-> "n1", lat |-> "45.40", lon |-> "-75.70"],
       Elem("tag", [k |-> "highway", v |-> "crossing"], <<>>))
  \o (CASE n2 = "ok" -> Elem("node", [id |-> "n2", lat |-> "45.41", lon |-> "-75.69"], <<>>)
        [] n2 = "nolat" -> Elem("node", [id |-> "n2", lon |-> "-75.69"], <<>>)
        [] OTHER -> <<>>)

\* An OSM XML document: note, meta, bounds, nodes, ways, one relation.
Document(n2, ws) ==
  Elem("osm", [version |-> "0.6"],
       Elem("note", <<>>, <<>>)
       \o Elem("meta", [osm_base |-> "2019-01-01T00:00:00Z"], <<>>)
       \o Elem("bounds", [minlat |-> "45.0", minlon |-> "-76.0",
                          maxlat |-> "46.0", maxlon |-> "-75.0"], <<>>)
       \o NodeElems(n2)
       \o WayElems(ws)
       \o Elem("relation", [id |-> "r1"],
               Elem("member", [type |-> "way", ref |-> "w1", role |-> "outer"], <<>>)
               \o Elem("tag", [k |-> "type", v |-> "route"], <<>>)))

\* A document that ends before its root is closed.
Truncated(evs) == SubSeq(evs, 1, Len(evs) - 1)

\* Tag mappings of the pipeline's documents: one per outcome of the stress
\* model (levels 0..4 and ValueError).
PipelineTags ==
  { [bicycle |-> "no", highway |-> "primary"],
    [highway |-> "cycleway"],
    [highway |-> "residential"],
    [highway |-> "primary"],
    [highway |-> "primary", lanes |-> "4", oneway |-> "yes", maxspeed |-> "60"],
    [highway |-> "primary", lanes |-> "x"] }

\* The ways of the pipeline's documents: every tag mapping on a way through
\* n1, and two ways that also reference n2.
PipelineWays ==
  [refs : {<<"n1">>}, tags : PipelineTags]
  \cup { [refs |-> <<"n1", "n2">>, tags |-> [highway |-> "cycleway"]],
         [refs |-> <<"n2", "n1">>, tags |-> [highway |-> "primary"]] }

SeqsUpTo(S, n) == UNION { [1..k -> S] : k \in 0..n }

\* The option sets: each branch of load() with each writer.
PipelineOptions ==
  { [bzip |-> FALSE, overpass |-> FALSE, geojson |-> TRUE],
    [bzip |-> FALSE, overpass |-> TRUE, geojson |-> FALSE],
    [bzip |-> TRUE, overpass |-> FALSE, geojson |-> FALSE],
    [bzip |-> TRUE, overpass |-> TRUE, geojson |-> TRUE] }

-----------------------------------------------------------------------------
(* The pipeline: the main method on one input file.                        *)

\* The state when the main method has built the analyzer.
Fresh ==
  /\ pc = "start"
  /\ pos = 0
  /\ currenttag = None
  /\ dispatched = <<>>
  /\ osm = OSMData
  /\ way_i = 1
  /\ runs = 0
  /\ ret = NoReturns
  /\ level = 1
  /\ osmouts = <<>>
  /\ files = <<>>
  /\ error = NoError

\* The input files: whole documents, and documents cut off before the end.
PipelineInputs ==
  { Document(n2, ws) : n2 \in {"absent", "ok", "nolat"},
                       ws \in SeqsUpTo(PipelineWays, MaxWays) }
  \cup { Truncated(Document("ok", ws)) : ws \in SeqsUpTo(PipelineWays, 1) }

Init ==
  /\ options \in PipelineOptions
  /\ input \in PipelineInputs
  /\ Fresh

Next ==
  \/ LoadBegin
  \/ LoadOverpass
  \/ LoadEvent
  \/ LoadReturn
  \/ ParseError
  \/ RunWay
  \/ RunAbort
  \/ RunReturn
  \/ Rerun
  \/ SaveBegin
  \/ SaveLevel
  \/ SaveFail
  \/ SaveReturn

Spec == Init /\ [][Next]_vars

-----------------------------------------------------------------------------
(* The stress model alone: one way, tags drawn from every combination of   *)
(* the values run() distinguishes, on a map that load() has produced.      *)

Absent == "<absent>"

TagValues ==
  [x \in {"bicycle", "piste:type", "highway", "service", "cycleway", "oneway",
          "lanes", "maxspeed"} |->
     CASE x = "bicycle" -> {Absent, "yes", "no", "designated"}
       [] x = "piste:type" -> {Absent, "nordic"}
       [] x = "highway" -> {Absent, "motorway", "motorway_link", "service", "residential",
                            "primary", "cycleway", "footway", "path", "track"}
       [] x = "service" -> {Absent, "parking_aisle", "driveway", "alley"}
       [] x = "cycleway" -> {Absent, "lane"}
       [] x = "oneway" -> {Absent, "yes", "no"}
       [] x = "lanes" -> {Absent, "2", "3", "2;4", "x"}
       [] x = "maxspeed" -> {Absent, "40", "41", "25 mph", "30 mph", "33mph", "national"}]

\* The tag mapping that holds the keys a choice gives a value.
TagsOf(choice) == [k \in {x \in DOMAIN choice : choice[x] # Absent} |-> choice[k]]

\* <osm><way id="w1"><nd ref="n1"/> tags </way></osm>
OneWay(tags) == Elem("osm", [version |-> "0.6"], WayElem("w1", <<"n1">>, tags))

\* run() is about to start on the map load_osm_file leaves for that document:
\* its only dispatch is the way's, at the way's end event.
InitClassify ==
  /\ options = [bzip |-> FALSE, overpass |-> FALSE, geojson |-> FALSE]
  /\ \E b \in TagValues["bicycle"], p \in TagValues["piste:type"],
        h \in TagValues["highway"], sv \in TagValues["service"],
        c \in TagValues["cycleway"], o \in TagValues["oneway"],
        l \in TagValues["lanes"], m \in TagValues["maxspeed"] :
       input = OneWay(TagsOf(("piste:type" :> p) @@
                        [bicycle |-> b, highway |-> h, service |-> sv, cycleway |-> c,
                         oneway |-> o, lanes |-> l, maxspeed |-> m]))
  /\ osm = Dispatch(OSMData, input, 2, Len(input) - 1)
  /\ dispatched = <<[elem |-> 2, at |-> Len(input) - 1]>>
  /\ currenttag = None
  /\ pos = Len(input)
  /\ pc = "run"
  /\ way_i = 1
  /\ runs = 1
  /\ ret = NoReturns
  /\ level = 1
  /\ osmouts = <<>>
  /\ files = <<>>
  /\ error = NoError

NextClassify ==
  \/ RunWay
  \/ RunAbort
  \/ RunReturn

SpecClassify == InitClassify /\ [][NextClassify]_vars

-----------------------------------------------------------------------------
(* The loader alone: every nesting of up to MaxElems elements named way,   *)
(* nd or tag below the root.                                               *)

LoaderTags == {"way", "nd", "tag"}

\* The event sequences (tag names only) of the forests of n elements.
RECURSIVE Forests(_)
Forests(n) ==
  IF n = 0 THEN {<<>>}
  ELSE UNION { UNION { { <<[ev |-> "start", tag |-> t]>> \o a
                         \o <<[ev |-> "end", tag |-> t]>> \o b :
                         a \in Forests(k), b \in Forests(n - 1 - k) } :
                       k \in 0..(n - 1) } :
               t \in LoaderTags }

Positions == <<"1", "2", "3", "4", "5", "6", "7", "8", "9", "10", "11", "12", "13", "14">>

\* The document with the given forest below its root; the element that starts
\* at event i carries i as its id, ref and v attributes.
Decorate(forest) ==
  Elem("osm", <<>>,
       [i \in 1..Len(forest) |->
          IF forest[i].ev = "start"
            THEN Start(forest[i].tag, [id |-> Positions[i + 1], ref |-> Positions[i + 1],
                                       k |-> "name", v |-> Positions[i + 1]])
            ELSE End(forest[i].tag)])

LoaderInputs ==
  { Decorate(f) : f \in UNION { Forests(n) : n \in 0..MaxElems } }
  \cup { Truncated(Decorate(f)) : f \in Forests(1) \cup Forests(2) }

InitLoader ==
  /\ options \in { [bzip |-> b, overpass |-> FALSE, geojson |-> FALSE] : b \in BOOLEAN }
  /\ input \in LoaderInputs
  /\ Fresh

NextLoader ==
  \/ LoadBegin
  \/ LoadEvent
  \/ LoadReturn
  \/ ParseError

SpecLoader == InitLoader /\ [][NextLoader]_vars

-----------------------------------------------------------------------------
(* Properties.                                                             *)

Range(f) == {f[x] : x \in DOMAIN f}

WayRefs == DOMAIN osm.ways.val

WayOf(ref) == osm.ways.val[ref]

\* run() has returned (at least once) and has not raised.
RunReturned == pc \in {"ran", "save", "done"} \/ (pc = "error" /\ error.stage = "save")

\* The run has ended in or after run().
RunEnded == RunReturned \/ (pc = "error" /\ error.stage = "run")

\* save() has ended, by returning or by raising.
SaveEnded == pc = "done" \/ (pc = "error" /\ error.stage = "save")

Levelled(ref) == WayOf(ref).level \in 0..4

SameTagsSameLevel ==
  \A r1 \in WayRefs, r2 \in WayRefs :
    (WayOf(r1).tags = WayOf(r2).tags /\ WayOf(r1).level # NoLevel /\ WayOf(r2).level # NoLevel)
      => WayOf(r1).level = WayOf(r2).level

\* C1 as stated: once run() is over, whatever the tags, every way of the map
\* has a level in 0..4, and ways with equal tags have equal levels.
C1_EveryWayLevelled ==
  RunEnded => (\A ref \in WayRefs : Levelled(ref)) /\ SameTagsSameLevel

\* What run() guarantees about the levels in every state.
C1_Levels ==
  /\ SameTagsSameLevel
  /\ \A ref \in WayRefs : WayOf(ref).level \in 0..4 \cup {NoLevel}
  /\ RunReturned => \A ref \in WayRefs : Levelled(ref)
  /\ (pc = "error" /\ error.stage = "run") =>
       /\ error.exc = "ValueError"
       /\ way_i \in 1..Len(osm.ways.keys)
       /\ \A k \in 1..Len(osm.ways.keys) :
            IF k < way_i THEN Levelled(osm.ways.keys[k])
            ELSE WayOf(osm.ways.keys[k]).level = (IF k = way_i THEN 0 ELSE NoLevel)

\* A level, once assigned, is never changed by a later step (of this run() or
\* of another one).
C1_Stable ==
  \A ref \in WayRefs : WayOf(ref).level # NoLevel =>
    (ref \in DOMAIN osm'.ways.val /\ osm'.ways.val[ref].level = WayOf(ref).level)

\* C1 (amended): when run() returns, every way has a level in 0..4 that is a
\* function of its tags only (equal tags, equal levels; running run() again
\* changes no level); when int() rejects a lanes or maxspeed text the stress
\* model consults, run() raises ValueError at that way, which keeps the
\* provisional level 0, and the ways after it have no level.
C1_LevelIsFunctionOfTags == [](C1_Levels) /\ [][C1_Stable]_vars

\* C1 witness: a second run() has returned on a map with two ways of equal
\* tags and different node references.
C1_Witness ==
  /\ pc = "ran" /\ runs = 2
  /\ \E r1 \in WayRefs, r2 \in WayRefs :
       r1 # r2 /\ WayOf(r1).tags = WayOf(r2).tags /\ WayOf(r1).nodes # WayOf(r2).nodes
       /\ WayOf(r1).level = 1

-----------------------------------------------------------------------------

Has(tags, k) == k \in DOMAIN tags
Is(tags, k, v) == k \in DOMAIN tags /\ tags[k] = v

\* The cases (a)..(d) of the gate.
GateCommon(t) ==
  \/ Is(t, "bicycle", "no")
  \/ Is(t, "bicycle", "yes") /\ Is(t, "piste:type", "nordic")
  \/ ~Is(t, "bicycle", "yes") /\ (Is(t, "highway", "motorway") \/ Is(t, "highway", "motorway_link"))
  \/ ~Is(t, "bicycle", "yes") /\ Is(t, "highway", "service")
     /\ (Is(t, "service", "parking_aisle") \/ Is(t, "service", "driveway"))

\* C2 as stated: level 0 exactly in the cases (a)..(d) and (e) neither a
\* bicycle tag nor a highway tag.
C2_GateAsStated ==
  pc = "ran" => \A ref \in WayRefs :
    WayOf(ref).level = 0 <=>
      (GateCommon(WayOf(ref).tags)
       \/ (~Has(WayOf(ref).tags, "bicycle") /\ ~Has(WayOf(ref).tags, "highway")))

\* C2 (amended): a way that run() classifies without a ValueError has level 0
\* exactly in the cases (a)..(d) and (e') no bicycle=yes and no highway tag;
\* a way with a bicycle tag other than yes/no and no highway tag gets level 0.
C2_Gate ==
  pc = "ran" => \A ref \in WayRefs :
    WayOf(ref).level = 0 <=>
      (GateCommon(WayOf(ref).tags)
       \/ (~Is(WayOf(ref).tags, "bicycle", "yes") /\ ~Has(WayOf(ref).tags, "highway")))

\* C2 witness: a classified way with bicycle=designated and no highway tag.
C2_Witness ==
  /\ pc = "ran"
  /\ \E ref \in WayRefs :
       /\ Is(WayOf(ref).tags, "bicycle", "designated")
       /\ ~Has(WayOf(ref).tags, "highway")
       /\ WayOf(ref).level = 0

-----------------------------------------------------------------------------

\* The numbers the numeric lanes and maxspeed texts of the documents denote.
LaneCount(t) ==
  IF ~Has(t, "lanes") THEN 0 - 1
  ELSE CASE t["lanes"] = "1" -> 1 [] t["lanes"] = "2" -> 2 [] t["lanes"] = "3" -> 3
         [] t["lanes"] = "4" -> 4 [] t["lanes"] = "2;4" -> 4

SpeedLimit(t) ==
  IF ~Has(t, "maxspeed") THEN (IF Is(t, "highway", "motorway") THEN 100 ELSE 50)
  ELSE CASE t["maxspeed"] = "30" -> 30 [] t["maxspeed"] = "40" -> 40
         [] t["maxspeed"] = "41" -> 41 [] t["maxspeed"] = "60" -> 60

NumericTags(t) ==
  /\ Has(t, "lanes") => t["lanes"] \in {"1", "2", "3", "4", "2;4"}
  /\ Has(t, "maxspeed") => t["maxspeed"] \in {"30", "40", "41", "60"}

\* The branch order of the decision procedure, for a cyclable way.
ExpectedLevel(t) ==
  IF Has(t, "cycleway") \/ (Has(t, "highway") /\ t["highway"] \in {"cycleway", "footway", "path", "track"})
    THEN 1
  ELSE IF Is(t, "highway", "service") THEN 2
  ELSE IF LaneCount(t) > 2 /\ ~Is(t, "highway", "residential") /\ Is(t, "oneway", "yes")
    THEN (IF SpeedLimit(t) <= 40 THEN 3 ELSE 4)
  ELSE IF Is(t, "highway", "residential") THEN 2
  ELSE IF SpeedLimit(t) <= 40 THEN 2 ELSE 3

\* C3: a cyclable way with numeric lanes and maxspeed gets the level of the
\* first matching branch (path 1, service 2, wide one-way 3|4, residential 2,
\* other 2|3); the speed limit without maxspeed is 100 on a motorway and 50
\* elsewhere, the lane count without lanes is -1.
C3_BranchOrder ==
  pc \in {"run", "ran"} => \A k \in 1..(way_i - 1) :
    LET t == WayOf(osm.ways.keys[k]).tags
    IN (NumericTags(t) /\ WayOf(osm.ways.keys[k]).level # 0) =>
         /\ WayOf(osm.ways.keys[k]).level = ExpectedLevel(t)
         /\ (k = way_i - 1 /\ ret.lanes.called) => ret.lanes.val = LaneCount(t)
         /\ (k = way_i - 1 /\ ret.maxspeed.called) =>
              ret.maxspeed.val = Tenths(SpeedLimit(t))

\* C3 witness: a wide one-way road over the limit, lanes given as a list.
C3_Witness ==
  /\ pc = "ran"
  /\ \E ref \in WayRefs :
       /\ Is(WayOf(ref).tags, "lanes", "2;4")
       /\ Is(WayOf(ref).tags, "maxspeed", "41")
       /\ WayOf(ref).level = 4
       /\ ret.lanes.called /\ ret.maxspeed.called

-----------------------------------------------------------------------------

\* The integer n before "mph" in the maxspeed texts of the documents.
MphTexts == {"25 mph", "30 mph", "33mph"}

Mph(text) == CASE text = "25 mph" -> 25 [] text = "30 mph" -> 30 [] text = "33mph" -> 33

\* C10: for a maxspeed text "n mph", get_maxspeed returns the integer
\* floor(n * 1.6).
C10_MphTruncated ==
  pc \in {"run", "ran"} => \A k \in 1..(way_i - 1) :
    LET t == WayOf(osm.ways.keys[k]).tags
    IN (k = way_i - 1 /\ Has(t, "maxspeed") /\ t["maxspeed"] \in MphTexts
        /\ ret.maxspeed.called) =>
         ret.maxspeed.val = Tenths((16 * Mph(t["maxspeed"])) \div 10)

-----------------------------------------------------------------------------

\* The node ids the ways of level lv reference in the source map.
ReferencedBy(lv) ==
  UNION { Range(WayOf(ref).nodes) : ref \in {r \in WayRefs : WayOf(r).level = lv} }

\* C4: the node ids of the derived map of level L are exactly the ids the
\* ways of level L reference, resolved or not.
C4_NodeIds ==
  \A lv \in DOMAIN osmouts :
    /\ DOMAIN osmouts[lv].nodes.val = ReferencedBy(lv)
    /\ Range(osmouts[lv].nodes.keys) = ReferencedBy(lv)

\* C4 witness: a derived map that holds an id the source map cannot resolve.
C4_Witness ==
  \E lv \in DOMAIN osmouts : \E ref \in DOMAIN osmouts[lv].nodes.val :
    /\ ref \notin DOMAIN osm.nodes.val
    /\ Cardinality(DOMAIN osmouts[lv].nodes.val) = 2

-----------------------------------------------------------------------------

\* The derived map of level lv holds exactly the ways of that level, as they
\* are in the source map, with the source's meta and bounds.
HoldsLevel(lv) ==
  /\ DOMAIN osmouts[lv].ways.val = {r \in WayRefs : WayOf(r).level = lv}
  /\ \A r \in DOMAIN osmouts[lv].ways.val : osmouts[lv].ways.val[r] = WayOf(r)
  /\ osmouts[lv].meta = osm.meta
  /\ osmouts[lv].bounds = osm.bounds

\* C5 as stated: save() always produces the four derived maps 1..4, which
\* partition the ways of level 1..4.
C5_FourMaps ==
  SaveEnded => (DOMAIN osmouts = 1..4 /\ \A lv \in 1..4 : HoldsLevel(lv))

\* C5 (amended): save() builds the derived maps in the order 1, 2, 3, 4 until
\* a writer raises; every map built holds exactly the ways of its level (so a
\* way is in no other map and a way of level 0 in none) with the source's
\* meta and bounds; all four are built and written when no writer raises.
C5_Partition ==
  /\ \A lv \in DOMAIN osmouts : HoldsLevel(lv)
  /\ \A lv \in DOMAIN osmouts : \A r \in DOMAIN osmouts[lv].ways.val : WayOf(r).level = lv
  /\ pc = "save" => DOMAIN osmouts = 1..(level - 1)
  /\ (pc = "error" /\ error.stage = "save") => DOMAIN osmouts = 1..level
  /\ pc = "done" => (DOMAIN osmouts = 1..4 /\ \A lv \in 1..4 : files[lv] = "complete")
  /\ pc \notin {"save", "done", "error"} => osmouts = <<>>

\* C5 witness: save() has returned on a map with a way of level 4 and one of
\* level 0.
C5_Witness ==
  /\ pc = "done"
  /\ \E r1 \in WayRefs, r2 \in WayRefs :
       /\ WayOf(r1).level = 4 /\ r1 \in DOMAIN osmouts[4].ways.val
       /\ WayOf(r2).level = 0

-----------------------------------------------------------------------------

\* No attribute the writers emit is missing from the loaded map.
AttributesComplete ==
  /\ ~ElementRaises(osm.meta)
  /\ ~ElementRaises(osm.bounds)
  /\ \A ref \in DOMAIN osm.nodes.val :
       ref # None /\ osm.nodes.val[ref].lat # None /\ osm.nodes.val[ref].lon # None
  /\ \A ref \in WayRefs : ref # None /\ None \notin Range(WayOf(ref).nodes)

\* C6: in native XML mode, on a map whose only irregularity is a reference to
\* a node the map does not hold, save() completes and writes every file.
C6_NativeWriterImmune ==
  (SaveEnded /\ ~options.geojson /\ AttributesComplete) =>
    (pc = "done" /\ \A lv \in 1..4 : lv \in DOMAIN files /\ files[lv] = "complete")

\* C7: with overpass set and bzip not set, load() of a well-formed document
\* does not end in an error.
C7_OverpassLoads ==
  (options.overpass /\ ~options.bzip /\ WellFormed(input)) =>
    ~(pc = "error" /\ error.stage = "load")

-----------------------------------------------------------------------------

\* C8: a file is written only after load() has consumed the whole document
\* and run() has given every way a level; a run that a parse error or a
\* ValueError ends has written no file.
C8_NoEarlyOutput ==
  /\ DOMAIN files # {} =>
       /\ pc \in {"save", "done", "error"}
       /\ pos = Len(input) /\ WellFormed(input)
       /\ \A ref \in WayRefs : Levelled(ref)
  /\ (pc = "error" /\ error.stage \in {"load", "run"}) => DOMAIN files = {}

\* C8 witness: ValueError has ended the run at the second way.
C8_Witness ==
  /\ pc = "error" /\ error.exc = "ValueError"
  /\ way_i = 2
  /\ DOMAIN files = {}

-----------------------------------------------------------------------------

\* The direct children of the root: the elements that start with only the
\* root open.
TopLevel(evs) == {k \in 1..Len(evs) : evs[k].ev = "start" /\ Len(Open(evs, k)) = 2}

\* Some element below a top-level child has that child's tag name.
SameNameNested(evs) ==
  \E k \in 1..Len(evs) :
    /\ evs[k].ev = "start"
    /\ Len(Open(evs, k)) > 2
    /\ evs[Open(evs, k)[2]].tag = evs[k].tag

\* The loader has dispatched the top-level children that have ended so far,
\* each once and at its own end event, nothing else, and holds no pending
\* tag while only the root is open.
DispatchedTopLevel ==
  /\ \A i \in 1..Len(dispatched) :
       /\ dispatched[i].elem \in TopLevel(input)
       /\ dispatched[i].at = EndOf(input, dispatched[i].elem)
  /\ \A i \in 1..Len(dispatched), j \in 1..Len(dispatched) :
       i # j => dispatched[i].elem # dispatched[j].elem
  /\ \A k \in TopLevel(input) :
       EndOf(input, k) <= pos => \E i \in 1..Len(dispatched) : dispatched[i].elem = k
  /\ (pos >= 1 /\ Len(Open(input, pos)) = 1) => currenttag = None

\* C9 as stated: for every well-formed document, nested same-name elements
\* included.
C9_AnyNesting == WellFormed(input) => DispatchedTopLevel

\* C9 (amended): the same, for every well-formed document in which no
\* descendant of a top-level child has that child's tag name.
C9_TopLevelDispatch ==
  (WellFormed(input) /\ ~SameNameNested(input)) => DispatchedTopLevel

\* C9 witness: the loader has finished a document with two top-level
\* children, one of them with children of its own.
C9_Witness ==
  /\ pc = "run"
  /\ ~SameNameNested(input)
  /\ Len(dispatched) = 2
  /\ \E i \in 1..2 : dispatched[i].at > dispatched[i].elem + 1

====
